---- MODULE Spec2Model ----
(***************************************************************************)
(* A model of the Minefield class of MineSweeper.py: board construction,   *)
(* adjacency computation, dig (recursive reveal), flag and the win/loss    *)
(* queries.  Grids are indexed from 0, as numpy indexes them.              *)
(***************************************************************************)
EXTENDS Integers, Sequences, FiniteSets, TLC

(* Board geometry: a small stand-in for one entry of __diff_mode. *)
Height == 3
Width == 3
MineAmnt == 1
(* Longest sequence of dig/flag calls explored on one instance. *)
MaxCalls == 2
(* Longest sequence explored when the coordinates may lie outside the grid. *)
MaxAnyCalls == 1
(* Most lines play reads for one game. *)
MaxMoves == 1

(* Cell values of field and field_map. *)
Mine == -1
Buried == 0
Dug == 1
Flagged == 2

(* The instance: height, width, mine_amnt, field, field_map, game_lost     *)
(* (what reading self._game_lost gives), won_attr (self._game_won).  The   *)
(* class:                                                                  *)
(* cls_game_lost (Minefield._game_lost).  old is the instance of the game  *)
(* played before this one.  pc is the point reached in __init__ or play,   *)
(* cmd the line last typed; call, prev_map, prev_lost and ncalls record    *)
(* the last call, the state it started from and the calls made so far.     *)
(* stack is the call stack of a dig followed invocation by invocation: for *)
(* every invocation inside its loop, the neighbours it has yet to dig.     *)
(* moves counts the lines play has read for the game in progress.          *)
VARIABLES field, field_map, game_lost, call, prev_map, prev_lost, ncalls,
          height, width, mine_amnt, won_attr, cls_game_lost, old, pc, cmd,
          stack, moves

vars == <<field, field_map, game_lost, call, prev_map, prev_lost, ncalls,
          height, width, mine_amnt, won_attr, cls_game_lost, old, pc, cmd,
          stack, moves>>

Rows == 0 .. (height - 1)
Cols == 0 .. (width - 1)

(* The coordinates a direct caller may pass: every index numpy accepts and *)
(* one more on either side.                                                *)
AnyRows == (-(height + 1)) .. height
AnyCols == (-(width + 1)) .. width

(* ---------------- numpy indexing ---------------- *)

(* An index i of an axis of length n is accepted when -n <= i < n. *)
InRange(i, n) == (-n <= i) /\ (i < n)

(* A negative accepted index counts from the end of the axis. *)
Index(i, n) == IF i < 0 THEN i + n ELSE i

(* arr[loc_row, loc_col] raises IndexError unless both indices are accepted. *)
IndexError(loc_row, loc_col) == ~(InRange(loc_row, height) /\ InRange(loc_col, width))

(* ---------------- construction ---------------- *)

(* __diff_mode: (mine_amnt, width, height) of each difficulty. *)
diff_mode == [EASY |-> <<10, 8, 8>>, MED |-> <<40, 15, 15>>, HARD |-> <<40, 30, 16>>]

(* np.zeros(height*width) with the first mine_amnt entries set to -1. *)
(* As unshuffled_of, but one entry too many is set to -1. *)
unshuffled_one_more(n) == [i \in 0 .. (height * width - 1) |-> IF i <= n THEN Mine ELSE 0]

unshuffled_of(n) == [i \in 0 .. (height * width - 1) |-> IF i < n THEN Mine ELSE 0]

unshuffled == unshuffled_of(MineAmnt)

(* The arrays np.random.shuffle can leave: every rearrangement of unshuffled, *)
(* that is every array with as many -1 entries as unshuffled has.            *)
count_of(a, v) == Cardinality({i \in DOMAIN a : a[i] = v})

shuffles_of(n) ==
  {a \in [0 .. (height * width - 1) -> {Mine, 0}] :
     count_of(a, Mine) = count_of(unshuffled_of(n), Mine)}

shuffles == shuffles_of(MineAmnt)

(* np.reshape(field, (height, width)): row-major. *)
reshape(a) == [r \in Rows |-> [c \in Cols |-> a[r * width + c]]]

(* __surrounds: the eight neighbours in the order built, out-of-grid ones    *)
(* dropped; h and w are self.height and self.width.                         *)
(* As valid_in, but row 0 is taken to be outside the grid. *)
valid_in_positive(h, w, loc) == (0 < loc[1]) /\ (loc[1] < h) /\ (0 <= loc[2]) /\ (loc[2] < w)

valid_in(h, w, loc) == (0 <= loc[1]) /\ (loc[1] < h) /\ (0 <= loc[2]) /\ (loc[2] < w)

valid_loc(loc) == valid_in(height, width, loc)

(* As surrounds_in, but the last neighbour (row + 1, col + 1) is left out. *)
surrounds_short(h, w, loc_row, loc_col) ==
  LET sur_locs == << <<loc_row - 1, loc_col - 1>>, <<loc_row - 1, loc_col>>,
                     <<loc_row - 1, loc_col + 1>>, <<loc_row, loc_col - 1>>,
                     <<loc_row, loc_col + 1>>, <<loc_row + 1, loc_col - 1>>,
                     <<loc_row + 1, loc_col>> >>
      valid(loc) == valid_in(h, w, loc)
  IN SelectSeq(sur_locs, valid)

surrounds_in(h, w, loc_row, loc_col) ==
  LET sur_locs == << <<loc_row - 1, loc_col - 1>>, <<loc_row - 1, loc_col>>,
                     <<loc_row - 1, loc_col + 1>>, <<loc_row, loc_col - 1>>,
                     <<loc_row, loc_col + 1>>, <<loc_row + 1, loc_col - 1>>,
                     <<loc_row + 1, loc_col>>, <<loc_row + 1, loc_col + 1>> >>
      valid(loc) == valid_in(h, w, loc)
  IN SelectSeq(sur_locs, valid)

surrounds(loc_row, loc_col) == surrounds_in(height, width, loc_row, loc_col)

(* The geometries an instance is built with: the model's and EASY's. *)
geometries == {<<Height, Width>>, <<diff_mode.EASY[3], diff_mode.EASY[2]>>}

(* surrounds of every location a call can name, computed once per geometry. *)
surrounds_at ==
  [k \in UNION {{g} \X ((-(g[1] + 1)) .. g[1]) \X ((-(g[2] + 1)) .. g[2]) : g \in geometries}
     |-> surrounds_in(k[1][1], k[1][2], k[2], k[3])]

(* np.column_stack(np.nonzero(field)): the non-zero cells in row-major order. *)
RECURSIVE nonzero_from(_, _)
nonzero_from(f, i) ==
  IF i >= height * width THEN << >>
  ELSE LET r == i \div width
           c == i % width
       IN (IF f[r][c] # 0 THEN << <<r, c>> >> ELSE << >>) \o nonzero_from(f, i + 1)

mine_locs(f) == nonzero_from(f, 0)

(* The inner loop of __locate_mines: bump each non-mine neighbour by one. *)
(* As bump_each, but a neighbour that is a mine is bumped as well. *)
RECURSIVE bump_each_mines_too(_, _)
bump_each_mines_too(f, locs) ==
  IF locs = << >> THEN f
  ELSE bump_each_mines_too([f EXCEPT ![Head(locs)[1]][Head(locs)[2]] = @ + 1], Tail(locs))

RECURSIVE bump_each(_, _)
bump_each(f, locs) ==
  IF locs = << >> THEN f
  ELSE LET row == Head(locs)[1]
           col == Head(locs)[2]
       IN bump_each(IF f[row][col] # Mine
                    THEN [f EXCEPT ![row][col] = @ + 1]
                    ELSE f,
                    Tail(locs))

(* The outer loop of __locate_mines over the mines found before the loop. *)
RECURSIVE locate_each(_, _)
locate_each(f, mines) ==
  IF mines = << >> THEN f
  ELSE locate_each(bump_each(f, surrounds(Head(mines)[1], Head(mines)[2])), Tail(mines))

(* As locate_mines, but the counting pass is skipped. *)
locate_mines_skipped(f) == f

locate_mines(f) == locate_each(f, mine_locs(f))

(* ---------------- dig ---------------- *)

(* The IndexError of an out-of-range subscript leaves the call at once. *)
(* As index_error, but the error is swallowed and the call returns normally. *)
index_error_swallowed(st) == st

index_error(st) == [st EXCEPT !.raised = TRUE]

(* Line 74: only a buried location is dug. *)
(* As buried_guard, but only a dug location is refused. *)
buried_guard_not_dug(m, r, c) == m[r][c] # Dug

buried_guard(m, r, c) == m[r][c] = Buried

(* Lines 76-77: digging a mine sets the lost flag, anything else leaves it. *)
(* As lost_after, but the flag is assigned on every dig. *)
lost_after_assigned(lost, v) == (v = Mine)

lost_after(lost, v) == IF v = Mine THEN TRUE ELSE lost

(* Line 79: only a zero location digs its surroundings. *)
(* As zero_guard, but every non-mine location digs its surroundings. *)
zero_guard_any_count(f, r, c) == f[r][c] >= 0

zero_guard(f, r, c) == f[r][c] = 0

(* dig, threading the mutable state st = [field_map, game_lost, raised, trace] *)
(* through the recursion; trace lists the locations that passed line 74.     *)
RECURSIVE dig(_, _, _, _)
RECURSIVE dig_each(_, _, _)
dig(f, st, loc_row, loc_col) ==
  IF st.raised THEN st
  ELSE IF IndexError(loc_row, loc_col) THEN index_error(st)
  ELSE LET r == Index(loc_row, height)
           c == Index(loc_col, width)
       IN IF buried_guard(st.field_map, r, c)
          THEN LET st1 == [st EXCEPT !.field_map[r][c] = Dug,
                                     !.game_lost = lost_after(@, f[r][c]),
                                     !.trace = Append(@, <<loc_row, loc_col>>)]
               IN IF f[r][c] = Mine
                  THEN st1
                  ELSE IF zero_guard(f, r, c)
                       THEN dig_each(f, st1, surrounds_at[<< <<height, width>>, loc_row, loc_col>>])
                       ELSE st1
          ELSE st

(* Lines 81-82: the loop over the surroundings of a zero location. *)
(* As dig_each, but a flagged neighbour is unflagged and then dug. *)
dig_each_unflagging(f, st, locs) ==
  IF locs = << >> THEN st
  ELSE LET row == Head(locs)[1]
           col == Head(locs)[2]
       IN dig_each(f,
                   dig(f, [st EXCEPT !.field_map[row][col] = IF @ = Flagged THEN Buried ELSE @],
                       row, col),
                   Tail(locs))

dig_each(f, st, locs) ==
  IF locs = << >> THEN st
  ELSE dig_each(f, dig(f, st, Head(locs)[1], Head(locs)[2]), Tail(locs))

(* ---------------- flag ---------------- *)

(* As flag, but every location that is not flagged becomes flagged. *)
flag_not_flagged(st, loc_row, loc_col) ==
  IF IndexError(loc_row, loc_col) THEN index_error(st)
  ELSE LET r == Index(loc_row, height)
           c == Index(loc_col, width)
       IN IF st.field_map[r][c] # Flagged
          THEN [st EXCEPT !.field_map[r][c] = Flagged]
          ELSE [st EXCEPT !.field_map[r][c] = Buried]

flag(st, loc_row, loc_col) ==
  IF IndexError(loc_row, loc_col) THEN index_error(st)
  ELSE LET r == Index(loc_row, height)
           c == Index(loc_col, width)
       IN IF st.field_map[r][c] = Buried
          THEN [st EXCEPT !.field_map[r][c] = Flagged]
          ELSE IF st.field_map[r][c] = Flagged
               THEN [st EXCEPT !.field_map[r][c] = Buried]
               ELSE st

(* ---------------- queries ---------------- *)

(* As count_dug, but flagged locations are counted too. *)
count_dug_not_buried(m) == Cardinality({loc \in Rows \X Cols : m[loc[1]][loc[2]] # Buried})

count_dug(m) == Cardinality({loc \in Rows \X Cols : m[loc[1]][loc[2]] = Dug})

game_won_of(m, lost) ==
  IF ~lost
  THEN (IF count_dug(m) = height * width - mine_amnt THEN TRUE ELSE FALSE)
  ELSE FALSE

game_won == game_won_of(field_map, game_lost)

(* Lines 105-114 of __str__: what is printed for one location; a dug      *)
(* location that is no mine shows its count, an integer of the int array.  *)
count_str == <<"0", "1", "2", "3", "4", "5", "6", "7", "8">>

cell_str(row, col) ==
  IF field_map[row][col] = 0 THEN "-"
  ELSE IF field_map[row][col] = 2 THEN "F"
  ELSE IF field_map[row][col] = 1
       THEN (IF field[row][col] = -1 THEN "M" ELSE count_str[field[row][col] + 1])
       ELSE ""

(* ---------------- the state machine ---------------- *)

no_call == [op |-> "new", row |-> 0, col |-> 0, raised |-> FALSE, trace |-> << >>]

no_cmd == [words |-> 0, digits |-> FALSE, action |-> "", y |-> 0, x |-> 0]

(* np.zeros((height, width)) *)
zeros_map == [r \in Rows |-> [c \in Cols |-> Buried]]

(* Minefield(mode): shuffle, reshape, count, all locations buried; the     *)
(* instance has no _game_lost of its own, so reading it gives the class's. *)
Init ==
  /\ height = Height
  /\ width = Width
  /\ mine_amnt = MineAmnt
  /\ \E a \in shuffles : field = locate_mines(reshape(a))
  /\ field_map = zeros_map
  /\ cls_game_lost = FALSE
  /\ game_lost = cls_game_lost
  /\ won_attr = "unset"
  /\ old = "none"
  /\ pc = "ready"
  /\ cmd = no_cmd
  /\ call = no_call
  /\ prev_map = field_map
  /\ prev_lost = FALSE
  /\ ncalls = 0
  /\ stack = << >>
  /\ moves = 0

(* The state a call made from outside finds. *)
(* As entry, but the call finds the lost flag cleared. *)
entry_not_lost == [field_map |-> field_map, game_lost |-> FALSE, raised |-> FALSE, trace |-> << >>]

entry == [field_map |-> field_map, game_lost |-> game_lost, raised |-> FALSE, trace |-> << >>]

(* Line 77 assigns self._game_lost: the attribute is created on the        *)
(* instance and the class attribute keeps its value.                       *)
(* As class_after, but the assignment goes to Minefield._game_lost. *)
class_after_shared(cls, lost) == lost

class_after(cls, lost) == cls

DoDig(loc_row, loc_col, limit) ==
  /\ ncalls < limit
  /\ \E st \in {dig(field, entry, loc_row, loc_col)} :
     /\ field_map' = st.field_map
     /\ game_lost' = st.game_lost
     /\ call' = [op |-> "dig", row |-> loc_row, col |-> loc_col,
                 raised |-> st.raised, trace |-> st.trace]
     /\ prev_map' = field_map
     /\ prev_lost' = game_lost
     /\ ncalls' = ncalls + 1
     /\ cls_game_lost' = class_after(cls_game_lost, st.game_lost)
     /\ UNCHANGED <<field, height, width, mine_amnt, stack>>

(* As DoFlag, but the flag is written into the board as well. *)
DoFlag_marks_field(loc_row, loc_col, limit) ==
  /\ ncalls < limit
  /\ \E st \in {flag(entry, loc_row, loc_col)} :
     /\ field_map' = st.field_map
     /\ game_lost' = st.game_lost
     /\ call' = [op |-> "flag", row |-> loc_row, col |-> loc_col,
                 raised |-> st.raised, trace |-> st.trace]
     /\ prev_map' = field_map
     /\ prev_lost' = game_lost
     /\ ncalls' = ncalls + 1
     /\ field' = [field EXCEPT ![loc_row][loc_col] = Flagged]
     /\ UNCHANGED <<height, width, mine_amnt, cls_game_lost, stack>>

DoFlag(loc_row, loc_col, limit) ==
  /\ ncalls < limit
  /\ \E st \in {flag(entry, loc_row, loc_col)} :
     /\ field_map' = st.field_map
     /\ game_lost' = st.game_lost
     /\ call' = [op |-> "flag", row |-> loc_row, col |-> loc_col,
                 raised |-> st.raised, trace |-> st.trace]
     /\ prev_map' = field_map
     /\ prev_lost' = game_lost
     /\ ncalls' = ncalls + 1
     /\ UNCHANGED <<field, height, width, mine_amnt, cls_game_lost, stack>>

(* The variables a call made outside play leaves alone. *)
direct == UNCHANGED <<won_attr, old, pc, cmd, moves>>

(* Calls with coordinates inside the grid, as the play loop makes them. *)
Dig == ncalls < MaxCalls /\ direct /\ \E loc_row \in Rows, loc_col \in Cols : DoDig(loc_row, loc_col, MaxCalls)

Flag == ncalls < MaxCalls /\ direct /\ \E loc_row \in Rows, loc_col \in Cols : DoFlag(loc_row, loc_col, MaxCalls)

Next == Dig \/ Flag

Spec == Init /\ [][Next]_vars

(* Calls with any integer coordinates near the grid, as a direct caller may make. *)
DigAny == ncalls < MaxAnyCalls /\ direct /\ \E loc_row \in AnyRows, loc_col \in AnyCols : DoDig(loc_row, loc_col, MaxAnyCalls)

FlagAny == ncalls < MaxAnyCalls /\ direct /\ \E loc_row \in AnyRows, loc_col \in AnyCols : DoFlag(loc_row, loc_col, MaxAnyCalls)

NextAny == DigAny \/ FlagAny

SpecAny == Init /\ [][NextAny]_vars

(* The in-grid calls again, for the properties of single cells. *)
SpecCells == Init /\ [][Next]_vars

(* The in-grid calls again, for what one call changes. *)
SpecCalls == Init /\ [][Next]_vars

(* ---------------- one mine in the corner of an EASY-sized board ---------------- *)

(* An instance with EASY's geometry whose shuffle left the array as it was  *)
(* built with one mine: the mine is the first cell, (0, 0).                 *)
InitEasy ==
  /\ height = diff_mode.EASY[3]
  /\ width = diff_mode.EASY[2]
  /\ mine_amnt = 1
  /\ field = locate_mines(reshape(unshuffled_of(mine_amnt)))
  /\ field_map = zeros_map
  /\ cls_game_lost = FALSE
  /\ game_lost = cls_game_lost
  /\ won_attr = "unset"
  /\ old = "none"
  /\ pc = "ready"
  /\ cmd = no_cmd
  /\ call = no_call
  /\ prev_map = field_map
  /\ prev_lost = FALSE
  /\ ncalls = 0
  /\ stack = << >>
  /\ moves = 0

(* One invocation of dig up to its loop (lines 73-80): st is the state it   *)
(* finds, stk the loops still open below it.  A zero location opens a loop *)
(* over its surroundings; an IndexError abandons every open loop.          *)
(* As dig_enter, but without the guard of line 74: any location is dug. *)
dig_enter_unguarded(f, st, stk, loc_row, loc_col) ==
  IF IndexError(loc_row, loc_col) THEN [st |-> index_error(st), stack |-> << >>]
  ELSE LET r == Index(loc_row, height)
           c == Index(loc_col, width)
           st1 == [st EXCEPT !.field_map[r][c] = Dug,
                             !.game_lost = lost_after(@, f[r][c]),
                             !.trace = Append(@, <<loc_row, loc_col>>)]
       IN IF f[r][c] = Mine
          THEN [st |-> st1, stack |-> stk]
          ELSE IF zero_guard(f, r, c)
               THEN [st |-> st1,
                     stack |-> Append(stk, surrounds_at[<< <<height, width>>, loc_row, loc_col>>])]
               ELSE [st |-> st1, stack |-> stk]

dig_enter(f, st, stk, loc_row, loc_col) ==
  IF IndexError(loc_row, loc_col) THEN [st |-> index_error(st), stack |-> << >>]
  ELSE LET r == Index(loc_row, height)
           c == Index(loc_col, width)
       IN IF buried_guard(st.field_map, r, c)
          THEN LET st1 == [st EXCEPT !.field_map[r][c] = Dug,
                                     !.game_lost = lost_after(@, f[r][c]),
                                     !.trace = Append(@, <<loc_row, loc_col>>)]
               IN IF f[r][c] = Mine
                  THEN [st |-> st1, stack |-> stk]
                  ELSE IF zero_guard(f, r, c)
                       THEN [st |-> st1,
                             stack |-> Append(stk, surrounds_at[<< <<height, width>>, loc_row, loc_col>>])]
                       ELSE [st |-> st1, stack |-> stk]
          ELSE [st |-> st, stack |-> stk]

(* The state a nested invocation finds: the call in progress so far. *)
inside == [field_map |-> field_map, game_lost |-> game_lost,
           raised |-> FALSE, trace |-> call.trace]

(* dig(loc_row, loc_col) called from outside: the outermost invocation. *)
BeginDig(loc_row, loc_col) ==
  /\ pc = "ready"
  /\ \E res \in {dig_enter(field, entry, << >>, loc_row, loc_col)} :
     /\ field_map' = res.st.field_map
     /\ game_lost' = res.st.game_lost
     /\ call' = [op |-> "dig", row |-> loc_row, col |-> loc_col,
                 raised |-> res.st.raised, trace |-> res.st.trace]
     /\ stack' = res.stack
     /\ pc' = IF res.stack = << >> THEN "ready" ELSE "digging"
     /\ cls_game_lost' = class_after(cls_game_lost, res.st.game_lost)
  /\ prev_map' = field_map
  /\ prev_lost' = game_lost
  /\ ncalls' = ncalls + 1
  /\ UNCHANGED <<field, height, width, mine_amnt, won_attr, old, cmd, moves>>

(* Line 81-82: the innermost open loop digs its next neighbour, or, having *)
(* none left, returns to the invocation below it.                          *)
StepDig ==
  /\ pc = "digging"
  /\ LET top == stack[Len(stack)]
         below == SubSeq(stack, 1, Len(stack) - 1)
     IN IF top = << >>
        THEN /\ stack' = below
             /\ pc' = IF below = << >> THEN "ready" ELSE "digging"
             /\ UNCHANGED <<field_map, game_lost, call, cls_game_lost>>
        ELSE \E res \in {dig_enter(field, inside, Append(below, Tail(top)),
                                    Head(top)[1], Head(top)[2])} :
             /\ field_map' = res.st.field_map
             /\ game_lost' = res.st.game_lost
             /\ call' = [call EXCEPT !.raised = res.st.raised, !.trace = res.st.trace]
             /\ stack' = res.stack
             /\ pc' = IF res.stack = << >> THEN "ready" ELSE "digging"
             /\ cls_game_lost' = class_after(cls_game_lost, res.st.game_lost)
  /\ UNCHANGED <<field, height, width, mine_amnt, won_attr, old, cmd,
                 prev_map, prev_lost, ncalls, moves>>

(* The first call on the new instance is a dig. *)
DigEasy ==
  /\ call = no_call
  /\ \E loc_row \in Rows, loc_col \in Cols : BeginDig(loc_row, loc_col)

(* flag calls made once the dig has returned. *)
FlagEasy ==
  /\ pc = "ready"
  /\ call # no_call
  /\ direct
  /\ \E loc_row \in Rows, loc_col \in Cols : DoFlag(loc_row, loc_col, MaxAnyCalls + 1)

NextEasy == DigEasy \/ StepDig \/ FlagEasy

SpecEasy == InitEasy /\ [][NextEasy]_vars

(* ---------------- dig invocation by invocation ---------------- *)

(* In-grid dig and flag calls on the model's boards, each dig followed     *)
(* through its recursion; a call is made only when none is in progress.    *)
DigSteps ==
  /\ ncalls < MaxAnyCalls
  /\ \E loc_row \in Rows, loc_col \in Cols : BeginDig(loc_row, loc_col)

FlagSteps ==
  /\ pc = "ready"
  /\ direct
  /\ \E loc_row \in Rows, loc_col \in Cols : DoFlag(loc_row, loc_col, MaxAnyCalls)

NextSteps == DigSteps \/ StepDig \/ FlagSteps

SpecSteps == Init /\ [][NextSteps]_vars

(* The interpreter runs a call in progress on: a dig that can take a step  *)
(* takes it.                                                               *)
SpecStepsFair == SpecSteps /\ WF_vars(StepDig)

(* ---------------- play ---------------- *)

(* Line 187: str.upper of the action typed. *)
upper(a) == IF a = "d" THEN "D" ELSE IF a = "f" THEN "F" ELSE IF a = "x" THEN "X" ELSE a

(* Lines 188-189: the 1-based coordinate typed becomes a 0-based index. *)
(* As to_index, but the coordinate is used as typed. *)
to_index_as_typed(t) == t

to_index(t) == t - 1

(* The lines typed at 'Please input next move': words is the number of     *)
(* pieces split(' ') finds, digits whether int() accepts both coordinates, *)
(* y and x the coordinates typed.                                          *)
lines ==
  {[words |-> 3, digits |-> TRUE, action |-> a, y |-> y, x |-> x] :
      a \in {"D", "f"}, y \in 0 .. (height + 1), x \in 0 .. (width + 1)}
  \cup {[words |-> 3, digits |-> TRUE, action |-> "x", y |-> y, x |-> 1] : y \in {0, 1}}
  \cup {[words |-> 3, digits |-> FALSE, action |-> a, y |-> 0, x |-> 0] : a \in {"D", "x"}}
  \cup {[words |-> 2, digits |-> TRUE, action |-> "D", y |-> 1, x |-> 0]}

(* continue: the line is turned down and the loop prompts again. *)
rejected(why) ==
  /\ call' = [no_call EXCEPT !.op = why]
  /\ prev_map' = field_map
  /\ prev_lost' = game_lost
  /\ pc' = "ready"
  /\ UNCHANGED <<field, field_map, game_lost, ncalls, height, width, mine_amnt,
                 won_attr, cls_game_lost, stack>>

(* Lines 188-189: int() raises a ValueError that nothing catches. *)
crashed ==
  /\ call' = [no_call EXCEPT !.op = "ValueError"]
  /\ prev_map' = field_map
  /\ prev_lost' = game_lost
  /\ pc' = "crashed"
  /\ UNCHANGED <<field, field_map, game_lost, ncalls, height, width, mine_amnt,
                 won_attr, cls_game_lost, stack>>

(* Lines 201-208: after a dig the loop is left on a loss, else on a win. *)
(* As pc_after_dig, but a win does not leave the loop. *)
pc_after_dig_no_win(lost, won) == IF lost THEN "lost" ELSE "ready"

pc_after_dig(lost, won) == IF lost THEN "lost" ELSE IF won THEN "won" ELSE "ready"

(* game.game_won is read only when game.game_lost was false; reading it    *)
(* assigns self._game_won.                                                 *)
won_attr_after(attr, lost, won) == IF lost THEN attr ELSE IF won THEN "True" ELSE "False"

(* One turn of the loop of lines 177-209 on the line i typed. *)
Move ==
  /\ pc = "ready"
  /\ moves < MaxMoves
  /\ moves' = moves + 1
  /\ UNCHANGED old
  /\ \E i \in lines :
       /\ cmd' = i
       /\ IF i.words # 3 THEN rejected("bad_input")
          ELSE IF ~i.digits THEN crashed
          ELSE LET action == upper(i.action)
                   y_coord == to_index(i.y)
                   x_coord == to_index(i.x)
               IN IF action # "D" /\ action # "F" THEN rejected("bad_action")
                  ELSE IF ~(0 <= y_coord /\ y_coord < height) THEN rejected("bad_row")
                  ELSE IF ~(0 <= x_coord /\ x_coord < width) THEN rejected("bad_col")
                  ELSE IF action = "D"
                       THEN /\ DoDig(y_coord, x_coord, MaxMoves)
                            /\ pc' = pc_after_dig(game_lost', game_won_of(field_map', game_lost'))
                            /\ won_attr' = won_attr_after(won_attr, game_lost',
                                                          game_won_of(field_map', game_lost'))
                       ELSE /\ DoFlag(y_coord, x_coord, MaxMoves)
                            /\ UNCHANGED <<pc, won_attr>>

(* The instance of the game just ended holds a _game_lost of its own       *)
(* exactly when it reads True while the class attribute reads False.       *)
own_attr == IF game_lost /\ ~cls_game_lost THEN "set" ELSE "unset"

(* Line 210: any answer but the empty one calls play again; the instance   *)
(* of the game just ended stays alive in the caller's frame as old, and    *)
(* the nested play has no instance until it builds one.                    *)
PlayAgain ==
  /\ pc \in {"lost", "won"}
  /\ \E answer \in {"", "Y", "N"} :
       IF answer # ""
       THEN /\ pc' = "menu"
            /\ old' = own_attr
            /\ field' = << >>
            /\ field_map' = << >>
            /\ game_lost' = cls_game_lost
            /\ won_attr' = "unset"
            /\ call' = no_call
            /\ prev_map' = << >>
            /\ prev_lost' = cls_game_lost
            /\ ncalls' = 0
            /\ moves' = 0
            /\ cmd' = no_cmd
            /\ UNCHANGED <<height, width, mine_amnt, cls_game_lost, stack>>
       ELSE /\ pc' = "quit"
            /\ UNCHANGED <<field, field_map, game_lost, call, prev_map, prev_lost, ncalls,
                           height, width, mine_amnt, won_attr, cls_game_lost, old, cmd,
                           stack, moves>>

(* Line 176 of the nested play: game = Minefield(diff). *)
Construct ==
  /\ pc = "menu"
  /\ \E a \in shuffles : field' = locate_mines(reshape(a))
  /\ field_map' = zeros_map
  /\ game_lost' = cls_game_lost
  /\ pc' = "ready"
  /\ prev_map' = zeros_map
  /\ UNCHANGED <<call, prev_lost, ncalls, height, width, mine_amnt, won_attr,
                 cls_game_lost, old, cmd, stack, moves>>

NextPlay == Move \/ PlayAgain \/ Construct

SpecPlay == Init /\ [][NextPlay]_vars

(* ---------------- __init__ step by step ---------------- *)

(* Line 26: the mode fixes the mine amount; any amount below height*width. *)
InitNew ==
  /\ height = Height
  /\ width = Width
  /\ mine_amnt \in 1 .. (height * width - 1)
  /\ field = << >>
  /\ field_map = << >>
  /\ cls_game_lost = FALSE
  /\ game_lost = cls_game_lost
  /\ won_attr = "unset"
  /\ old = "none"
  /\ pc = "create_field"
  /\ cmd = no_cmd
  /\ call = no_call
  /\ prev_map = << >>
  /\ prev_lost = FALSE
  /\ ncalls = 0
  /\ stack = << >>
  /\ moves = 0

built == UNCHANGED <<game_lost, call, prev_map, prev_lost, ncalls,
                     height, width, mine_amnt, won_attr, cls_game_lost, old, cmd,
                     stack, moves>>

(* Line 27: __create_field. *)
CreateField ==
  /\ pc = "create_field"
  /\ \E a \in shuffles_of(mine_amnt) : field' = reshape(a)
  /\ pc' = "locate_mines"
  /\ UNCHANGED field_map
  /\ built

(* Line 28: __locate_mines. *)
LocateMines ==
  /\ pc = "locate_mines"
  /\ field' = locate_mines(field)
  /\ pc' = "field_map"
  /\ UNCHANGED field_map
  /\ built

(* Line 29: the field map. *)
InitMap ==
  /\ pc = "field_map"
  /\ field_map' = zeros_map
  /\ pc' = "ready"
  /\ UNCHANGED field
  /\ built

NextNew == CreateField \/ LocateMines \/ InitMap

SpecNew == InitNew /\ [][NextNew]_vars

(* ---------------- vocabulary of the properties ---------------- *)

Cells == Rows \X Cols

all_buried == [r \in Rows |-> [c \in Cols |-> Buried]]

is_mine(loc) == field[loc[1]][loc[2]] = Mine

(* Every non-mine cell has visibility Dug in the grid m. *)
all_safe_dug(m) == \A loc \in Cells : ~is_mine(loc) => m[loc[1]][loc[2]] = Dug

(* Two distinct cells that touch orthogonally or diagonally. *)
adjacent(a, b) ==
  /\ a # b
  /\ a[1] - b[1] \in {-1, 0, 1}
  /\ a[2] - b[2] \in {-1, 0, 1}

(* The cells of Z joined to a cell of S by a chain of adjacent cells of Z. *)
RECURSIVE region(_, _)
region(S, Z) ==
  LET T == S \cup {z \in Z : \E s \in S : adjacent(s, z)}
  IN IF T = S THEN S ELSE region(T, Z)

zero_cells == {loc \in Cells : field[loc[1]][loc[2]] = 0}

(* The last call was an in-grid dig of a cell that was buried / not buried. *)
dug_buried == call.op = "dig" /\ prev_map[call.row][call.col] = Buried

won_before == game_won_of(prev_map, prev_lost)

(* ---------------- C1 ---------------- *)

C2_DigNotBuriedNoOp ==
  (call.op = "dig" /\ prev_map[call.row][call.col] # Buried) =>
     /\ ~call.raised
     /\ field_map = prev_map
     /\ game_lost = prev_lost
     /\ game_won = won_before

(* A dig of a flagged zero-count cell. *)
C2_Witness ==
  /\ call.op = "dig"
  /\ prev_map[call.row][call.col] = Flagged
  /\ field[call.row][call.col] = 0

(* ---------------- C3 ---------------- *)

(* C3: dig on a Buried cell holding a mine or a positive count turns that   *)
(* one cell to Dug and no other; lost becomes true for a mine and keeps its *)
(* value for a positive count.                                              *)
C3_DigSingleCell ==
  (dug_buried /\ field[call.row][call.col] # 0) =>
     /\ field_map = [prev_map EXCEPT ![call.row][call.col] = Dug]
     /\ game_lost = (IF field[call.row][call.col] = Mine THEN TRUE ELSE prev_lost)

(* The mine dug as the first move: lost, and every other cell still buried. *)
C3_Witness ==
  /\ dug_buried
  /\ field[call.row][call.col] = Mine
  /\ prev_map = all_buried
  /\ game_lost
  /\ \A loc \in Cells : loc # <<call.row, call.col>> => field_map[loc[1]][loc[2]] = Buried

(* ---------------- C4 ---------------- *)

(* C4: lost is false right after construction, and a call made when lost is *)
(* true leaves it true.                                                     *)
C4_LostNeverReset ==
  /\ (call.op = "new") => ~game_lost
  /\ prev_lost => game_lost

(* A call made on a lost instance that dug a further cell. *)
C4_Witness ==
  /\ prev_lost
  /\ game_lost
  /\ call.op = "dig"
  /\ field_map # prev_map

(* ---------------- C5 ---------------- *)

(* The zero-count cells joined to the dug cell by zero-count cells. *)
zero_region == region({<<call.row, call.col>>}, zero_cells)

(* The same, through zero-count cells that were buried before the call. *)
buried_zero_region ==
  region({<<call.row, call.col>>},
         {z \in zero_cells : prev_map[z[1]][z[2]] = Buried})

(* C5 as stated: after dig on a Buried zero-count cell, every zero-count    *)
(* cell joined to it by a chain of zero-count cells is Dug, and so is every *)
(* neighbour of each of those cells.                                        *)
C5_Original ==
  (dug_buried /\ field[call.row][call.col] = 0) =>
     \A z \in zero_region :
        /\ field_map[z[1]][z[2]] = Dug
        /\ \A n \in Cells : adjacent(z, n) => field_map[n[1]][n[2]] = Dug

(* C5 amended: after dig on a Buried zero-count cell, every zero-count cell *)
(* joined to it by a chain of zero-count cells that were Buried before the  *)
(* call is Dug, and each neighbour of each of those cells is Dug or, when   *)
(* it was Flagged before the call, still Flagged.                           *)
C5_BuriedRegionRevealed ==
  (dug_buried /\ field[call.row][call.col] = 0) =>
     \A z \in buried_zero_region :
        /\ field_map[z[1]][z[2]] = Dug
        /\ \A n \in Cells : adjacent(z, n) =>
              \/ field_map[n[1]][n[2]] = Dug
              \/ prev_map[n[1]][n[2]] = Flagged /\ field_map[n[1]][n[2]] = Flagged

(* A flood-fill over several zero-count cells that leaves a flagged         *)
(* zero-count cell of the region flagged.                                   *)
C5_Witness ==
  /\ dug_buried
  /\ field[call.row][call.col] = 0
  /\ Cardinality(buried_zero_region) >= 2
  /\ \E z \in zero_region : field_map[z[1]][z[2]] = Flagged

(* ---------------- C6 ---------------- *)

toggled(v) == IF v = Buried THEN Flagged ELSE IF v = Flagged THEN Buried ELSE v

(* C7: flag on an in-grid cell turns Buried to Flagged, Flagged to Buried   *)
(* and leaves Dug; no other cell, lost and game_won do not change; and      *)
(* after any flag call a second flag call on the same cell gives back       *)
(* exactly the state before the first.                                      *)
C7_FlagToggles ==
  /\ call.op = "flag" =>
        /\ ~call.raised
        /\ field_map = [prev_map EXCEPT ![call.row][call.col] = toggled(@)]
        /\ game_lost = prev_lost
        /\ game_won = won_before
  /\ call.op = "flag" =>
        flag(entry, call.row, call.col) = [entry EXCEPT !.field_map = prev_map,
                                                         !.game_lost = prev_lost]
  /\ (ncalls = 2 /\ call.op = "flag" /\ prev_map[call.row][call.col] = Flagged) =>
        (field_map = all_buried /\ ~game_lost)

(* Two flag calls on one cell of a new instance. *)
C7_Witness ==
  /\ ncalls = 2
  /\ call.op = "flag"
  /\ prev_map[call.row][call.col] = Flagged
  /\ field_map[call.row][call.col] = Buried

(* ---------------- C8 ---------------- *)

unchanged_by_call ==
  /\ field_map = prev_map
  /\ game_lost = prev_lost

(* C8 as stated: dig or flag with a negative row or column signals an error *)
(* and leaves the visibility grid and the lost flag unchanged.              *)
C8_NegativeRejected ==
  (call.op \in {"dig", "flag"} /\ (call.row < 0 \/ call.col < 0)) =>
     (call.raised /\ unchanged_by_call)

(* ---------------- C9 ---------------- *)

(* C9: dig or flag with row >= height or col >= width signals an error to   *)
(* the caller and leaves the visibility grid and the lost flag unchanged.   *)
C9_TooLargeRejected ==
  (call.op \in {"dig", "flag"} /\ (call.row >= height \/ call.col >= width)) =>
     (call.raised /\ unchanged_by_call)

(* dig(height, 0) on a new instance. *)
C9_Witness ==
  /\ call.op = "dig"
  /\ call.row = height
  /\ call.col = 0
  /\ call.raised
  /\ field_map = all_buried

(* ---------------- C10 ---------------- *)

(* C10 as stated: once game_won has been true, it is true after every later *)
(* in-grid dig or flag call.                                                *)
C10_WonIrreversible == won_before => game_won

(* ---------------- C11 ---------------- *)

mines_in(f) == Cardinality({loc \in Cells : f[loc[1]][loc[2]] = Mine})

numbered_in(f) == Cardinality({loc \in Cells : f[loc[1]][loc[2]] >= 0})

(* C11: every difficulty has fewer mines than cells, and the board that    *)
(* construction produces has exactly mine_amnt mine cells and              *)
(* height*width - mine_amnt numbered cells, whatever the shuffle gives.    *)
C11_MineCount ==
  /\ \A mode \in DOMAIN diff_mode :
        diff_mode[mode][1] < diff_mode[mode][2] * diff_mode[mode][3]
  /\ pc \in {"locate_mines", "field_map", "ready"} =>
        /\ mines_in(field) = mine_amnt
        /\ numbered_in(field) = height * width - mine_amnt

(* A finished board with several mines, the first cell not one of them. *)
C11_Witness ==
  /\ pc = "ready"
  /\ mine_amnt >= 2
  /\ field[0][0] # Mine
  /\ mines_in(field) = mine_amnt

(* ---------------- C12 ---------------- *)

(* The mines among the cells touching loc, found by scanning all cells. *)
mines_around(loc) == Cardinality({n \in Cells : adjacent(loc, n) /\ is_mine(n)})

(* C12: after construction every mine cell still holds -1 (there are       *)
(* mine_amnt of them) and every other cell holds the number of mines among *)
(* the cells touching it, a value in 0..8.                                 *)
C12_CountsAreNeighbourMines ==
  pc \in {"field_map", "ready"} =>
     /\ mines_in(field) = mine_amnt
     /\ \A loc \in Cells :
           \/ is_mine(loc)
           \/ /\ field[loc[1]][loc[2]] = mines_around(loc)
              /\ field[loc[1]][loc[2]] \in 0 .. 8

(* A counted board with two touching mines and a cell touching three or more. *)
C12_Witness ==
  /\ pc = "ready"
  /\ \E a \in Cells, b \in Cells : adjacent(a, b) /\ is_mine(a) /\ is_mine(b)
  /\ \E loc \in Cells : field[loc[1]][loc[2]] >= 3

(* ---------------- C13 ---------------- *)

(* C13: on the 8x8 board whose only mine is at (0,0), the single call      *)
(* dig(7,7) on the new instance, once it has returned, leaves every cell but (0,0) Dug, leaves     *)
(* (0,0) Buried and flaggable, leaves lost false and makes game_won true.   *)
C13_CornerMineFloodFill ==
  /\ height = 8 /\ width = 8
  /\ field[0][0] = Mine /\ mines_in(field) = 1
  /\ (pc = "ready" /\ ncalls = 1 /\ call.op = "dig" /\ call.row = 7 /\ call.col = 7) =>
        /\ \A loc \in Cells : loc # <<0, 0>> => field_map[loc[1]][loc[2]] = Dug
        /\ field_map[0][0] = Buried
        /\ flag(entry, 0, 0).field_map[0][0] = Flagged
        /\ ~game_lost
        /\ game_won

(* The state in which dig(7,7), made as the first call, has returned. *)
C13_Witness ==
  /\ pc = "ready"
  /\ stack = << >>
  /\ ncalls = 1
  /\ call.op = "dig" /\ call.row = 7 /\ call.col = 7
  /\ prev_map = all_buried
  /\ count_dug(field_map) = 63
  /\ game_won

(* ---------------- C14 ---------------- *)

(* The cells named by the locations of a trace. *)
trace_cells(t) == {<<Index(t[i][1], height), Index(t[i][2], width)>> : i \in DOMAIN t}

(* C14: across in-grid dig and flag calls every cell changes only by        *)
(* Buried->Dug in a dig (the cells changed are those that passed the guard  *)
(* at some step of the recursion, all of them buried before the call) or by *)
(* Buried->Flagged or Flagged->Buried in a flag of that cell; a Dug cell    *)
(* stays Dug, a Flagged cell is never dug, and the number of Dug cells does *)
(* not decrease.                                                            *)
C14_CellStateMachine ==
  \/ field_map = prev_map /\ call.trace = << >>
  \/ LET dug_now == trace_cells(call.trace)
     IN /\ \A r \in Rows, c \in Cols :
              \/ field_map[r][c] = prev_map[r][c]
              \/ /\ call.op = "dig"
                 /\ prev_map[r][c] = Buried
                 /\ field_map[r][c] = Dug
                 /\ <<r, c>> \in dug_now
              \/ /\ call.op = "flag"
                 /\ r = call.row
                 /\ c = call.col
                 /\ \/ prev_map[r][c] = Buried /\ field_map[r][c] = Flagged
                    \/ prev_map[r][c] = Flagged /\ field_map[r][c] = Buried
        /\ \A loc \in dug_now : prev_map[loc[1]][loc[2]] = Buried
        /\ count_dug(field_map) >= count_dug(prev_map)

(* A flood-fill that dug a zero cell next to a flagged safe cell and left   *)
(* that cell flagged.                                                       *)
C14_Witness ==
  /\ call.op = "dig"
  /\ Len(call.trace) > 1
  /\ \E loc \in Cells, z \in trace_cells(call.trace) :
        /\ adjacent(loc, z)
        /\ field[z[1]][z[2]] = 0
        /\ ~is_mine(loc)
        /\ prev_map[loc[1]][loc[2]] = Flagged
        /\ field_map[loc[1]][loc[2]] = Flagged

(* ---------------- C15 ---------------- *)

(* The neighbours the open loops of a dig have yet to visit. *)
RECURSIVE pending(_)
pending(stk) == IF stk = << >> THEN 0 ELSE Len(Head(stk)) + pending(Tail(stk))

(* What a dig in progress has left to do at most: every location not yet   *)
(* dug can open one loop of eight neighbours, every pending neighbour costs *)
(* one invocation and every open loop one return.                           *)
work_left == 9 * (height * width - Len(call.trace)) + pending(stack) + Len(stack)

no_cell_twice(t) ==
  \A i \in DOMAIN t, j \in DOMAIN t :
     i # j => <<Index(t[i][1], height), Index(t[i][2], width)>>
              # <<Index(t[j][1], height), Index(t[j][2], width)>>

(* C15: a top-level dig terminates: at every point of its recursion no cell *)
(* has passed the Buried guard twice, the cells that passed it are Dug and  *)
(* number at most width*height, and every further invocation or return      *)
(* strictly lowers work_left, a natural number; so the dig returns.         *)
C15_DigTerminates ==
  /\ [](/\ no_cell_twice(call.trace)
        /\ Len(call.trace) <= height * width
        /\ \A loc \in trace_cells(call.trace) : field_map[loc[1]][loc[2]] = Dug
        /\ work_left >= 0
        /\ (pc = "ready" => stack = << >>))
  /\ [][pc = "digging" => work_left' < work_left]_vars
  /\ (pc = "digging" ~> pc = "ready")

(* A dig that has returned after flooding two zero cells that touch each    *)
(* other.                                                                   *)
C15_Witness ==
  /\ pc = "ready"
  /\ call.op = "dig"
  /\ \E a \in trace_cells(call.trace), b \in trace_cells(call.trace) :
        /\ adjacent(a, b)
        /\ field[a[1]][a[2]] = 0
        /\ field[b[1]][b[2]] = 0

(* ---------------- C16 ---------------- *)

mine_dug == \E r \in Rows, c \in Cols : field[r][c] = Mine /\ field_map[r][c] = Dug

(* C16: at every point of a sequence of in-grid dig and flag calls, lost is *)
(* true exactly when some mine cell is Dug; so a cell is printed as M only  *)
(* in a lost game, and while lost is false every Dug cell is a non-mine.    *)
C16_LostIffMineDug ==
  /\ game_lost <=> mine_dug
  /\ ~game_lost => \A r \in Rows, c \in Cols :
                      /\ cell_str(r, c) # "M"
                      /\ field_map[r][c] = Dug => field[r][c] # Mine

(* A lost game that prints an M next to a number dug before it. *)
C16_Witness ==
  /\ game_lost
  /\ ~prev_lost
  /\ \E loc \in Cells : cell_str(loc[1], loc[2]) = "M"
  /\ \E loc \in Cells : cell_str(loc[1], loc[2]) = "1"

(* ---------------- C17 ---------------- *)

(* C17: once the instance is built, no turn of the loop of play changes    *)
(* its board: not a dig with its flood-fill, not a flag, not the game_lost *)
(* and game_won queries made after a dig, not a line turned down.          *)
C17_BoardFixed == [][pc = "ready" => field' = field]_vars

(* A flood-fill dig after which game_lost and game_won were both read. *)
C17_Witness ==
  /\ call.op = "dig"
  /\ Len(call.trace) > 1
  /\ won_attr \in {"True", "False"}

(* ---------------- C18 ---------------- *)

(* What reading game_lost of the earlier game's instance gives now. *)
old_lost == (old = "set") \/ (old = "unset" /\ cls_game_lost)

(* C18: the class attribute is never written, so a new instance starts with *)
(* game_lost false even when the game before it was lost, and the instance  *)
(* of an earlier game that was not lost still reads false whatever is dug   *)
(* in the new one.                                                          *)
C18_LostPerInstance ==
  /\ ~cls_game_lost
  /\ call = no_call => ~game_lost
  /\ old = "unset" => ~old_lost

(* The new instance of a replay after a lost game, before its first move. *)
C18_Witness ==
  /\ old = "set"
  /\ pc = "ready"
  /\ call = no_call
  /\ ~game_lost

(* ---------------- C19 ---------------- *)

typed == cmd.words = 3 /\ cmd.digits

(* C19: every dig or flag play makes is for the line 'A R C' just typed, at *)
(* (R-1, C-1), with 0 <= row < height and 0 <= col < width, and raises      *)
(* nothing; a line whose R or C is 0 or above the dimension, or whose       *)
(* action is neither D nor F, makes no call, leaves the visibility grid and *)
(* lost as they were and returns to the prompt.                             *)
C19_PlayCallsInBounds ==
  /\ call.op \in {"dig", "flag"} =>
        /\ typed
        /\ call.row = cmd.y - 1 /\ call.col = cmd.x - 1
        /\ 0 <= call.row /\ call.row < height
        /\ 0 <= call.col /\ call.col < width
        /\ ~call.raised
        /\ upper(cmd.action) = (IF call.op = "dig" THEN "D" ELSE "F")
  /\ (typed /\ (\/ cmd.y = 0 \/ cmd.y > height
                \/ cmd.x = 0 \/ cmd.x > width
                \/ upper(cmd.action) \notin {"D", "F"})) =>
        /\ call.op \in {"bad_action", "bad_row", "bad_col"}
        /\ field_map = prev_map
        /\ game_lost = prev_lost
        /\ pc = "ready"

(* A dig typed for the last row and column, applied to (height-1, width-1). *)
C19_Witness ==
  /\ call.op = "dig"
  /\ cmd.y = height /\ cmd.x = width
  /\ field_map[height - 1][width - 1] = Dug

(* ---------------- C20 ---------------- *)

(* C20: play is at its prompt only while the game is neither lost nor won,  *)
(* so no dig or flag is applied to an instance already lost or won; a dig   *)
(* that loses or wins leaves the loop at once, and the loop is left with    *)
(* the loss reported only when lost and the win only when won and not lost. *)
C20_PlayEndsAtFirstEnd ==
  /\ pc = "ready" => ~game_lost /\ ~game_won
  /\ call.op \in {"dig", "flag"} => ~prev_lost /\ ~won_before
  /\ (call.op = "dig" /\ (game_lost \/ game_won)) => pc \in {"lost", "won", "quit"}
  /\ pc = "lost" => game_lost /\ ~game_won
  /\ pc = "won" => game_won /\ ~game_lost /\ won_attr = "True"

(* A game of a replay won by its dig and left at once. *)
C20_Witness ==
  /\ pc = "won"
  /\ old # "none"
  /\ call.op = "dig"
  /\ game_won

====
